---------------------------- MODULE Spec2Model ----------------------------
(***************************************************************************)
(* A model of the discoverability manual-page indexer and search engine:   *)
(*   - the name/section resolver of page_interface.ManualPage,             *)
(*   - the overstrike cleanup _degrotty,                                   *)
(*   - the accumulation of one ManualPage over record_path calls,          *)
(*   - the tree walk and cache dump of index.index,                        *)
(*   - search_cosine / post_process_search / full_search.                  *)
(* Python strings are modelled as sequences of one-character strings, so   *)
(* that splitting, joining, parsing and formatting are computed, not       *)
(* assumed.                                                                *)
(***************************************************************************)
EXTENDS Integers, Sequences, FiniteSets, TLC

VARIABLES
    \* ---- name resolver ----
    path,          \* the path handed to the resolver
    key_result,    \* outcome of ManualPage._get_name_and_section(path)
    name_result,   \* outcome of ManualPage.get_name(path)
    \* ---- overstrike cleanup ----
    dg_lines,      \* the lines handed to _degrotty
    dg_once,       \* _degrotty(dg_lines)
    dg_twice,      \* _degrotty(_degrotty(dg_lines))
    \* ---- one page_interface.ManualPage ----
    pg_pc,         \* "new", "live", "raised" (a call raised) or "saved"
    pg_key,        \* (_title, _section_number), or the constructor's failure
    pg_paths,      \* _paths
    pg_sections,   \* _sections: a dict, as its items in insertion order
    pg_mtime,      \* _last_modification_time
    pg_hashes,     \* _hashes
    pg_saved,      \* what get_save_info returned or raised
    pg_log,        \* history: every record_path call made (path, output, mtime)
    \* ---- index.index: the walk and the cache dump ----
    ix_pc,         \* "walking", "raised" (the build aborted) or "dumped"
    ix_files,      \* the file system: real path -> formatter output and mtime
    ix_good,       \* the desired section names (_GOOD_SECTIONS)
    ix_todo,       \* the directory entries os.walk has still to yield
    ix_pages,      \* pages: the dict real_path -> ManualPage, in insertion order
    ix_cache,      \* the JSON object written to the cache file
    \* ---- search ----
    sr_pc,         \* "start", "selected" (search_cosine returned) or "done"
    corpus,        \* the corpus: a list of (title, text), here its titles
    scores,        \* scores[i]: the score of document i for the query
    query,         \* the query string
    count,         \* the count argument
    selected,      \* what search_cosine returned
    results,       \* what post_process_search returned
    \* ---- discoverability.main: the model artifacts ----
    mn_pc,         \* mn_pc[p]: where search process p is in main()
    mn_files,      \* the files .matrix, .corpus and .vectorizer
    mn_cache,      \* the file discoverability_cache
    mn_local,      \* mn_local[p]: the local variables of process p
    mn_start       \* history: the artifact files as they were when p started

resolveVars == <<path, key_result, name_result>>
degrottyVars == <<dg_lines, dg_once, dg_twice>>
pageVars == <<pg_pc, pg_key, pg_paths, pg_sections, pg_mtime, pg_hashes,
              pg_saved, pg_log>>

indexVars == <<ix_pc, ix_files, ix_good, ix_todo, ix_pages, ix_cache>>

searchVars == <<sr_pc, corpus, scores, query, count, selected, results>>

mainVars == <<mn_pc, mn_files, mn_cache, mn_local, mn_start>>

vars == <<resolveVars, degrottyVars, pageVars, indexVars, searchVars, mainVars>>

\* The variables each component leaves alone
notResolve == <<degrottyVars, pageVars, indexVars, searchVars, mainVars>>
notDegrotty == <<resolveVars, pageVars, indexVars, searchVars, mainVars>>
notPage == <<resolveVars, degrottyVars, indexVars, searchVars, mainVars>>
notIndex == <<resolveVars, degrottyVars, pageVars, searchVars, mainVars>>
notSearch == <<resolveVars, degrottyVars, pageVars, indexVars, mainVars>>
notMain == <<resolveVars, degrottyVars, pageVars, indexVars, searchVars>>

\* A value for the variables of a component that a specification does not run
Idle == [kind |-> "Idle"]
ResolveIdle == path = Idle /\ key_result = Idle /\ name_result = Idle
DegrottyIdle == dg_lines = Idle /\ dg_once = Idle /\ dg_twice = Idle
PageIdle ==
    /\ pg_pc = "idle" /\ pg_key = Idle /\ pg_paths = <<>> /\ pg_sections = <<>>
    /\ pg_mtime = 0 /\ pg_hashes = {} /\ pg_saved = Idle /\ pg_log = <<>>
IndexIdle ==
    /\ ix_pc = "idle" /\ ix_files = Idle /\ ix_good = {} /\ ix_todo = <<>>
    /\ ix_pages = <<>> /\ ix_cache = Idle
SearchIdle ==
    /\ sr_pc = "idle" /\ corpus = <<>> /\ scores = <<>> /\ query = <<>>
    /\ count = 0 /\ selected = <<>> /\ results = <<>>
MainIdle ==
    /\ mn_pc = Idle /\ mn_files = Idle /\ mn_cache = Idle /\ mn_local = Idle
    /\ mn_start = Idle

----------------------------------------------------------------------------
(* Generic string helpers (Python str methods on sequences of characters)   *)

\* All sequences over S of length 0..n
SeqsUpTo(S, n) == UNION {[1..k -> S] : k \in 0..n}

\* The characters the models use, by Python character class
Digits == {"0", "1", "2", "3"}
UpperChars == {"T", "N", "A", "D", "E", "S", "Y"}
LowerChars == {"a", "b", "d", "e", "g", "n", "s", "t", "x", "y", "z"}
SpaceChars == {" "}

\* str.isnumeric(): non-empty and every character numeric
IsNumeric(s) == Len(s) > 0 /\ \A i \in 1..Len(s) : s[i] \in Digits

DigitVal(c) == CASE c = "0" -> 0 [] c = "1" -> 1 [] c = "2" -> 2 [] c = "3" -> 3

DigitChar(d) == CASE d = 0 -> "0" [] d = 1 -> "1" [] d = 2 -> "2" [] d = 3 -> "3"
                  [] d = 4 -> "4" [] d = 5 -> "5" [] d = 6 -> "6" [] d = 7 -> "7"
                  [] d = 8 -> "8" [] d = 9 -> "9"

\* int(s) for a string of decimal digits
RECURSIVE ParseInt(_)
ParseInt(s) ==
    IF Len(s) = 0 THEN 0
    ELSE 10 * ParseInt(SubSeq(s, 1, Len(s) - 1)) + DigitVal(s[Len(s)])

\* str(n) / f"{n}" for a natural number
RECURSIVE FormatInt(_)
FormatInt(n) ==
    IF n < 10 THEN <<DigitChar(n)>>
    ELSE FormatInt(n \div 10) \o <<DigitChar(n % 10)>>

\* s.split(sep) for a one-character separator: empty tokens are kept
RECURSIVE SplitOn(_, _)
SplitOn(s, sep) ==
    IF \A i \in 1..Len(s) : s[i] # sep THEN <<s>>
    ELSE LET k == CHOOSE i \in 1..Len(s) :
                     s[i] = sep /\ \A j \in 1..(i - 1) : s[j] # sep
         IN <<SubSeq(s, 1, k - 1)>> \o SplitOn(SubSeq(s, k + 1, Len(s)), sep)

\* sep.join(tokens)
RECURSIVE JoinWith(_, _)
JoinWith(tokens, sep) ==
    IF Len(tokens) = 0 THEN <<>>
    ELSE IF Len(tokens) = 1 THEN tokens[1]
    ELSE tokens[1] \o sep \o JoinWith(Tail(tokens), sep)

\* str.strip(): leading and trailing whitespace removed
RECURSIVE LStrip(_)
LStrip(s) == IF Len(s) > 0 /\ s[1] \in SpaceChars THEN LStrip(Tail(s)) ELSE s

RECURSIVE RStrip(_)
RStrip(s) ==
    IF Len(s) > 0 /\ s[Len(s)] \in SpaceChars
    THEN RStrip(SubSeq(s, 1, Len(s) - 1)) ELSE s

Strip(s) == RStrip(LStrip(s))

\* str.isspace(): non-empty and only whitespace
IsSpace(s) == Len(s) > 0 /\ \A i \in 1..Len(s) : s[i] \in SpaceChars

\* str.isupper(): at least one cased character and no lowercase one
IsUpper(s) ==
    /\ \E i \in 1..Len(s) : s[i] \in UpperChars
    /\ \A i \in 1..Len(s) : s[i] \notin LowerChars

\* str.isalpha(): non-empty and only letters
IsAlpha(s) ==
    Len(s) > 0 /\ \A i \in 1..Len(s) : s[i] \in UpperChars \cup LowerChars

\* str.split() without argument: the maximal runs of non-whitespace
RECURSIVE SplitWs(_)
SplitWs(s) ==
    LET t == LStrip(s)
    IN IF Len(t) = 0 THEN <<>>
       ELSE IF \A i \in 1..Len(t) : t[i] \notin SpaceChars THEN <<t>>
       ELSE LET k == CHOOSE i \in 1..Len(t) :
                        t[i] \in SpaceChars /\ \A j \in 1..(i - 1) : t[j] \notin SpaceChars
            IN <<SubSeq(t, 1, k - 1)>> \o SplitWs(SubSeq(t, k + 1, Len(t)))

\* str.lower() on the characters of the model
LowerOf(c) ==
    CASE c = "T" -> "t" [] c = "N" -> "n" [] c = "A" -> "a" [] c = "D" -> "d"
      [] c = "E" -> "e" [] c = "S" -> "s" [] c = "Y" -> "y" [] OTHER -> c

Lower(s) == [i \in 1..Len(s) |-> LowerOf(s[i])]

----------------------------------------------------------------------------
(* Name resolver: page_interface.ManualPage                                 *)

\* list[-k] raises IndexError when the list has fewer than k elements
HasFromEnd(lst, k) == Len(lst) >= k
FromEnd(lst, k) == lst[Len(lst) - k + 1]

KeyOk(name, section) == [kind |-> "PageKey", name |-> name, section |-> section]
Raised(err) == [kind |-> err]

\* _name_valid(split_name): the subscript is evaluated before the length test
NameValidRaises(split_name) == ~HasFromEnd(split_name, 2)

_name_valid(split_name) ==
    IsNumeric(FromEnd(split_name, 2)) /\ Len(split_name) >= 3

\* A resolver that takes only the first dot-separated token as the name
get_name_and_section_first_token(p) ==
    LET split_name == SplitOn(FromEnd(SplitOn(p, "/"), 1), ".")
    IN IF IsNumeric(FromEnd(split_name, 1))
       THEN KeyOk(split_name[1], ParseInt(FromEnd(split_name, 1)))
       ELSE IF NameValidRaises(split_name) THEN Raised("IndexError")
       ELSE IF ~_name_valid(split_name) THEN Raised("ValueError")
       ELSE KeyOk(split_name[1], ParseInt(FromEnd(split_name, 2)))

\* _get_name_and_section(path)
_get_name_and_section(p) ==
    LET split_name == SplitOn(FromEnd(SplitOn(p, "/"), 1), ".")
        n == Len(split_name)
    IN IF IsNumeric(FromEnd(split_name, 1))
       THEN KeyOk(JoinWith(SubSeq(split_name, 1, n - 1), <<".">>),
                  ParseInt(FromEnd(split_name, 1)))
       ELSE IF NameValidRaises(split_name) THEN Raised("IndexError")
       ELSE IF ~_name_valid(split_name) THEN Raised("ValueError")
       ELSE KeyOk(JoinWith(SubSeq(split_name, 1, n - 2), <<".">>),
                  ParseInt(FromEnd(split_name, 2)))

\* the compound title "{name} ({section})"
CompoundTitle(name, section) ==
    name \o <<" ", "(">> \o FormatInt(section) \o <<")">>

\* get_name(path)
get_name(p) ==
    LET r == _get_name_and_section(p)
    IN IF r.kind = "PageKey"
       THEN [kind |-> "Title", title |-> CompoundTitle(r.name, r.section)]
       ELSE r

\* ---- inputs of the resolver ----
MaxTokens == 4

FileTokens ==
    { <<>>, <<"a">>, <<"1">>, <<"0", "2">>, <<"g", "z">>,
      <<"b", "z", "2">>, <<"t", "x", "t">> }

DirPrefixes == { <<>>, <<"d", ".", "3", "/">> }

FileNames ==
    { JoinWith(toks, <<".">>) :
        toks \in UNION {[1..k -> FileTokens] : k \in 1..MaxTokens} }

NotCalled == [kind |-> "NotCalled"]

ResolveInit ==
    /\ MainIdle
    /\ DegrottyIdle
    /\ PageIdle
    /\ IndexIdle
    /\ SearchIdle
    /\ path \in { d \o f : d \in DirPrefixes, f \in FileNames }
    /\ key_result = NotCalled
    /\ name_result = NotCalled

CallGetNameAndSection ==
    /\ key_result = NotCalled
    /\ key_result' = _get_name_and_section(path)
    /\ UNCHANGED <<path, name_result, notResolve>>

CallGetName ==
    /\ name_result = NotCalled
    /\ name_result' = get_name(path)
    /\ UNCHANGED <<path, key_result, notResolve>>

ResolveNext == CallGetNameAndSection \/ CallGetName

SpecResolve == ResolveInit /\ [][ResolveNext]_vars

----------------------------------------------------------------------------
(* Claims about the name resolver                                           *)

LastComponent(p) == FromEnd(SplitOn(p, "/"), 1)

CompressionSuffixes == { <<".", "g", "z">>, <<".", "b", "z", "2">> }

\* The ways to read filename f as NAME.SECTION, NAME.SECTION.gz or
\* NAME.SECTION.bz2 with NAME non-empty and SECTION a non-empty digit string
ShapeDecomps(f) ==
    { d \in { [name |-> SubSeq(f, 1, i - 1), section |-> SubSeq(f, i + 1, j)] :
                i \in 1..Len(f), j \in 1..Len(f) } :
        /\ Len(d.name) > 0
        /\ IsNumeric(d.section)
        /\ \E suf \in CompressionSuffixes \cup { <<>> } :
               f = d.name \o <<".">> \o d.section \o suf }

\* SECTION without its leading zeros (the decimal rendering of its value)
RECURSIVE StripLeadingZeros(_)
StripLeadingZeros(s) ==
    IF Len(s) > 1 /\ s[1] = "0" THEN StripLeadingZeros(Tail(s)) ELSE s

\* C1 (the resolver part, common to the original and the amended claim):
\* for a filename NAME.SECTION[.gz|.bz2] the resolver returns (NAME, int(SECTION)).
C1_Key ==
    \A d \in ShapeDecomps(LastComponent(path)) :
        key_result # NotCalled =>
            key_result = KeyOk(d.name, ParseInt(d.section))

\* C1 as stated: for every filename NAME.SECTION, NAME.SECTION.gz or
\* NAME.SECTION.bz2 the resolver returns (NAME, SECTION as integer) and get_name
\* returns the title made of NAME, " (", the string SECTION and ")".
C1_Original ==
    /\ C1_Key
    /\ \A d \in ShapeDecomps(LastComponent(path)) :
           name_result # NotCalled =>
               name_result = [kind |-> "Title",
                              title |-> d.name \o <<" ", "(">> \o d.section \o <<")">>]

\* C1 amended: the resolver returns (NAME, SECTION as integer) and get_name
\* returns NAME, " (", SECTION without its leading zeros, ")".
C1_Resolver ==
    /\ C1_Key
    /\ \A d \in ShapeDecomps(LastComponent(path)) :
           name_result # NotCalled =>
               name_result = [kind |-> "Title",
                              title |-> d.name \o <<" ", "(">>
                                        \o StripLeadingZeros(d.section) \o <<")">>]

\* C1 witness: a compressed page whose NAME contains a dot and whose SECTION has
\* a leading zero has been resolved and titled.
C1_Witness ==
    /\ key_result.kind = "PageKey"
    /\ name_result.kind = "Title"
    /\ \E d \in ShapeDecomps(LastComponent(path)) :
           /\ \E i \in 1..Len(d.name) : d.name[i] = "."
           /\ d.section[1] = "0"
           /\ LastComponent(path) # d.name \o <<".">> \o d.section

\* C2 as stated: a filename that is not NAME.SECTION[.gz|.bz2] makes the resolver
\* fail with ValueError: no PageKey is returned and no other error is raised.
C2_NotAManualPage ==
    (key_result # NotCalled /\ ShapeDecomps(LastComponent(path)) = {})
        => key_result.kind = "ValueError"

\* C2, the part the code does satisfy: a two-token name whose last token is
\* not numeric is rejected with ValueError.
C2_TwoTokenRejected ==
    LET toks == SplitOn(LastComponent(path), ".")
    IN (key_result # NotCalled /\ Len(toks) = 2 /\ ~IsNumeric(toks[2]))
           => key_result.kind = "ValueError"

----------------------------------------------------------------------------
(* Overstrike cleanup: page_interface._degrotty                             *)

\* The backspace character \x08
BS == "^H"

\* re.sub("(.)\x08\\1", r"\1", line): leftmost, non-overlapping matches; the
\* scan resumes after the end of each match
RECURSIVE undo_bold(_)
undo_bold(line) ==
    IF Len(line) = 0 THEN <<>>
    ELSE IF Len(line) >= 3 /\ line[2] = BS /\ line[3] = line[1]
    THEN <<line[1]>> \o undo_bold(SubSeq(line, 4, Len(line)))
    ELSE <<line[1]>> \o undo_bold(Tail(line))

\* re.sub("_\x08(.)", r"\1", line)
RECURSIVE undo_italics(_)
undo_italics(line) ==
    IF Len(line) = 0 THEN <<>>
    ELSE IF Len(line) >= 3 /\ line[1] = "_" /\ line[2] = BS
    THEN <<line[3]>> \o undo_italics(SubSeq(line, 4, Len(line)))
    ELSE <<line[1]>> \o undo_italics(Tail(line))

\* _degrotty(full_text)
_degrotty(full_text) ==
    [i \in 1..Len(full_text) |-> undo_italics(undo_bold(full_text[i]))]

\* ---- inputs of _degrotty ----
MaxLineLen == 5
MaxLines == 2

GrottyChars == {"a", "_", BS}

GrottyLines == SeqsUpTo(GrottyChars, MaxLineLen)

Cleaned(ls) == [kind |-> "Lines", lines |-> ls]

DegrottyInit ==
    /\ MainIdle
    /\ ResolveIdle
    /\ PageIdle
    /\ IndexIdle
    /\ SearchIdle
    /\ dg_lines \in SeqsUpTo(GrottyLines, MaxLines)
    /\ dg_once = NotCalled
    /\ dg_twice = NotCalled

DegrottyOnce ==
    /\ dg_once = NotCalled
    /\ dg_once' = Cleaned(_degrotty(dg_lines))
    /\ UNCHANGED <<dg_lines, dg_twice, notDegrotty>>

DegrottyTwice ==
    /\ dg_once # NotCalled
    /\ dg_twice = NotCalled
    /\ dg_twice' = Cleaned(_degrotty(dg_once.lines))
    /\ UNCHANGED <<dg_lines, dg_once, notDegrotty>>

DegrottyNext == DegrottyOnce \/ DegrottyTwice

SpecDegrotty == DegrottyInit /\ [][DegrottyNext]_vars

\* C3 as stated: _degrotty is idempotent, _degrotty(_degrotty(lines)) equals
\* _degrotty(lines) for every list of lines, chained overstrikes included.
C3_Idempotent ==
    dg_twice # NotCalled => dg_twice = dg_once

\* C3, the cases the code does satisfy: a single bold overstrike and a single
\* italic overstrike collapse to one character, and cleaning them again changes
\* nothing.
C3_SingleOverstrike ==
    (dg_twice # NotCalled
        /\ \A i \in 1..Len(dg_lines) :
              dg_lines[i] \in { <<"a", BS, "a">>, <<"_", BS, "a">> })
    => (dg_twice = dg_once
        /\ \A i \in 1..Len(dg_once.lines) : dg_once.lines[i] = <<"a">>)

----------------------------------------------------------------------------
(* Text normalizer: model.Model.preprocess                                  *)

\* text.replace("- ", "")
RECURSIVE RemoveHyphenSpace(_)
RemoveHyphenSpace(text) ==
    IF Len(text) = 0 THEN <<>>
    ELSE IF Len(text) >= 2 /\ text[1] = "-" /\ text[2] = " "
    THEN RemoveHyphenSpace(SubSeq(text, 3, Len(text)))
    ELSE <<text[1]>> \o RemoveHyphenSpace(Tail(text))

\* c if c in _GOOD_CHARS else replace_policy(c), joined
RECURSIVE KeepGoodChars(_)
KeepGoodChars(text) ==
    IF Len(text) = 0 THEN <<>>
    ELSE (IF text[1] \in UpperChars \cup LowerChars THEN <<text[1]>>
          ELSE IF text[1] = "'" THEN <<>>
          ELSE <<" ">>) \o KeepGoodChars(Tail(text))

preprocess(text) ==
    Lower(JoinWith(SplitWs(KeepGoodChars(RemoveHyphenSpace(text))), <<" ">>))

----------------------------------------------------------------------------
(* One manual page: page_interface.ManualPage                               *)

\* The desired section names read from the sections file (upper-cased)
GoodSections == { <<"N", "A">>, <<"D", "E">> }

_is_desireable_section(section_name) == section_name \in GoodSections

_is_section_title(line) ==
    /\ IsUpper(line)
    /\ line[1] \notin SpaceChars
    /\ \A i \in 1..Len(SplitWs(line)) : IsAlpha(SplitWs(line)[i])

\* A dict from section name to text, as its items in insertion order
HasSection(d, n) == \E i \in 1..Len(d) : d[i].name = n
SectionText(d, n) == d[CHOOSE i \in 1..Len(d) : d[i].name = n].text
SetSection(d, n, t) ==
    IF HasSection(d, n)
    THEN [i \in 1..Len(d) |-> IF d[i].name = n THEN [name |-> n, text |-> t] ELSE d[i]]
    ELSE Append(d, [name |-> n, text |-> t])

\* current_section = None
NoSection == <<>>

\* Phase 2 of _parse: the loop over full_text[1:]
RECURSIVE ScanLines(_, _, _)
ScanLines(lines, sections, current_section) ==
    IF Len(lines) = 0 THEN sections
    ELSE LET line == lines[1]
             rest == Tail(lines)
         IN IF Len(line) = 0 \/ IsSpace(line)
            THEN ScanLines(rest, sections, current_section)
            ELSE IF _is_section_title(line) /\ _is_desireable_section(Strip(line))
            THEN ScanLines(rest,
                     IF HasSection(sections, Strip(line))
                     THEN SetSection(sections, Strip(line),
                                     SectionText(sections, Strip(line)) \o <<" ">>)
                     ELSE SetSection(sections, Strip(line), <<>>),
                     Strip(line))
            ELSE LET cur == IF _is_section_title(line) THEN NoSection
                            ELSE current_section
                 IN IF cur # NoSection
                    THEN ScanLines(rest,
                             SetSection(sections, cur,
                                 SectionText(sections, cur) \o Strip(line) \o <<" ">>),
                             cur)
                    ELSE ScanLines(rest, sections, cur)

\* hasher.update(...) returns None, and that is what is kept as the hash
NoneValue == "None"
HashOf(stdout) == NoneValue

\* A dedup test that never recognizes content
NeverSeen(this_hash, hashes) == FALSE

\* this_hash in self._hashes
AlreadySeen(this_hash, hashes) == this_hash \in hashes

\* _parse, given the formatter's stdout (as its lines): the new _sections and
\* _hashes, and the exception raised if any
_parse(sections, hashes, stdout) ==
    LET this_hash == HashOf(stdout)
        seen == hashes \cup {this_hash}
        full_text == _degrotty(stdout)
    IN IF AlreadySeen(this_hash, hashes)
       THEN [sections |-> sections, hashes |-> hashes, err |-> "none"]
       ELSE IF Len(full_text) = 0
       THEN [sections |-> sections, hashes |-> seen, err |-> "none"]
       ELSE IF \A i \in 1..Len(full_text) : Strip(full_text[i]) = <<>>
       THEN [sections |-> sections, hashes |-> seen, err |-> "IndexError"]
       ELSE [sections |-> ScanLines(Tail(full_text), sections, NoSection),
             hashes |-> seen, err |-> "none"]

\* record_path computes the maximum into a local, self_last_modification_time:
\* the attribute _last_modification_time keeps its value
NewModificationTime(file_mtime, last) == last

\* ---- inputs of a page ----
MaxRecords == 3

TitleLine == <<"T", "(", "1", ")">>
HeadNA == <<"N", "A">>
BoldHeadNA == <<"N", BS, "N", "A", BS, "A">>
HeadDE == <<"D", "E">>
HeadSY == <<"S", "Y">>

\* What the formatter can print for a file
FormatterOutputs ==
    { <<>>,
      << <<>>, <<" ">> >>,
      << TitleLine, <<>>, BoldHeadNA, <<" ", "x">> >>,
      << TitleLine, HeadNA, <<" ", "y">> >>,
      << TitleLine, HeadSY, <<" ", "x">> >>,
      << TitleLine, HeadNA, <<" ", "x", "-">>, <<" ", "y", "'", "s">>, HeadDE, <<" ", "y", " ", "A">> >>,
      << TitleLine, HeadNA, <<" ", "x">>, HeadSY, <<"y">>, HeadNA, <<"y">> >> }

\* Modification times of files
Mtimes == {1, 2}

PagePaths ==
    { <<"m", "/", "a", ".", "1">>,
      <<"n", "/", "a", ".", "1", ".", "g", "z">>,
      <<"n", "/", "a">> }

PageInit ==
    /\ MainIdle
    /\ ResolveIdle
    /\ DegrottyIdle
    /\ IndexIdle
    /\ SearchIdle
    /\ pg_pc = "new"
    /\ pg_key = NotCalled
    /\ pg_paths = <<>>
    /\ pg_sections = <<>>
    /\ pg_mtime = 0
    /\ pg_hashes = {}
    /\ pg_saved = NotCalled
    /\ pg_log = <<>>

\* The body of record_path(path), for a file with this formatter output and mtime
RecordInto(p, stdout, file_mtime) ==
    LET r == _parse(pg_sections, pg_hashes, stdout)
    IN /\ pg_paths' = Append(pg_paths, p)
       /\ pg_mtime' = NewModificationTime(file_mtime, pg_mtime)
       /\ pg_sections' = r.sections
       /\ pg_hashes' = r.hashes
       /\ pg_pc' = IF r.err = "none" THEN "live" ELSE "raised"
       /\ pg_log' = Append(pg_log, [path |-> p, out |-> stdout, mtime |-> file_mtime])

\* ManualPage(path)
Construct(p, stdout, file_mtime) ==
    /\ pg_pc = "new"
    /\ pg_key' = _get_name_and_section(p)
    /\ IF _get_name_and_section(p).kind = "PageKey"
       THEN RecordInto(p, stdout, file_mtime)
       ELSE /\ pg_pc' = "raised"
            /\ UNCHANGED <<pg_paths, pg_sections, pg_mtime, pg_hashes, pg_log>>
    /\ UNCHANGED <<pg_saved, notPage>>

\* page.record_path(path)
RecordPath(p, stdout, file_mtime) ==
    /\ pg_pc = "live"
    /\ Len(pg_log) < MaxRecords
    /\ RecordInto(p, stdout, file_mtime)
    /\ UNCHANGED <<pg_key, pg_saved, notPage>>

\* _clean_data: every section text is preprocessed in place
CleanedSections(sections) ==
    [i \in 1..Len(sections) |->
        [name |-> sections[i].name, text |-> preprocess(sections[i].text)]]

\* page.get_save_info()
GetSaveInfo ==
    /\ pg_pc = "live"
    /\ pg_pc' = "saved"
    /\ IF Len(pg_sections) = 0
       THEN /\ pg_saved' = Raised("NoDataReadError")
            /\ UNCHANGED pg_sections
       ELSE /\ pg_sections' = CleanedSections(pg_sections)
            /\ pg_saved' =
                 [kind |-> "SaveInfo",
                  compound_title |-> CompoundTitle(pg_key.name, pg_key.section),
                  title |-> pg_key.name,
                  section |-> pg_key.section,
                  paths |-> pg_paths,
                  modification |-> pg_mtime,
                  sections |-> CleanedSections(pg_sections)]
    /\ UNCHANGED <<pg_key, pg_paths, pg_mtime, pg_hashes, pg_log, notPage>>

PageNext ==
    \/ \E p \in PagePaths, stdout \in FormatterOutputs, t \in Mtimes :
           Construct(p, stdout, t)
    \/ \E p \in PagePaths, stdout \in FormatterOutputs, t \in Mtimes :
           RecordPath(p, stdout, t)
    \/ GetSaveInfo

SpecPage == PageInit /\ [][PageNext]_vars

----------------------------------------------------------------------------
(* Claims about one manual page                                             *)

\* The sections of a page built from a single file with this formatter output
SinglePathSections(stdout) == _parse(<<>>, {}, stdout).sections

SameKey(p, q) ==
    /\ _get_name_and_section(p).kind = "PageKey"
    /\ _get_name_and_section(p) = _get_name_and_section(q)

\* Two distinct paths of one key were recorded, with identical formatter output
TwoIdenticalCopies ==
    /\ pg_pc = "live"
    /\ Len(pg_log) = 2
    /\ pg_log[1].path # pg_log[2].path
    /\ SameKey(pg_log[1].path, pg_log[2].path)
    /\ pg_log[1].out = pg_log[2].out

\* C4: when two distinct paths of the same PageKey are recorded into one page
\* (constructor, then record_path) and the formatter output is identical, the
\* sections equal those of a page built from either path alone, and paths holds
\* both paths.
C4_IdenticalCopiesAddNothing ==
    TwoIdenticalCopies =>
        /\ pg_sections = SinglePathSections(pg_log[1].out)
        /\ pg_sections = SinglePathSections(pg_log[2].out)
        /\ pg_paths = <<pg_log[1].path, pg_log[2].path>>

\* C4 witness: two copies with the same output, which has desired sections
C4_Witness ==
    /\ TwoIdenticalCopies
    /\ Len(pg_sections) > 0
    /\ \E i \in 1..Len(pg_sections) : Len(pg_sections[i].text) > 0

\* What the section loop adds for one formatter output that is processed
SectionsAfter(sections, stdout) ==
    IF Len(_degrotty(stdout)) = 0 THEN sections
    ELSE ScanLines(Tail(_degrotty(stdout)), sections, NoSection)

\* The accumulation over the distinct-content occurrences of a history, in order
RECURSIVE AccumulateDistinct(_, _, _)
AccumulateDistinct(log, seen, sections) ==
    IF Len(log) = 0 THEN sections
    ELSE IF log[1].out \in seen
    THEN AccumulateDistinct(Tail(log), seen, sections)
    ELSE AccumulateDistinct(Tail(log), seen \cup {log[1].out},
                            SectionsAfter(sections, log[1].out))

\* C5 as stated: after any sequence of record_path calls the text of each desired
\* section is the space-joined concatenation over every distinct-content
\* occurrence: output that differs from all output seen before is appended, and
\* only content already processed is skipped.
C5_DistinctContentAccumulates ==
    pg_pc = "live" => pg_sections = AccumulateDistinct(pg_log, {}, <<>>)

\* C5, the part the code does satisfy: a page holds the sections of the first
\* file recorded (every later file is skipped as already seen).
C5_FirstContentOnly ==
    pg_pc = "live" => pg_sections = SectionsAfter(<<>>, pg_log[1].out)

RECURSIVE MaxMtime(_)
MaxMtime(log) ==
    IF Len(log) = 0 THEN 0
    ELSE LET m == MaxMtime(Tail(log))
         IN IF log[1].mtime > m THEN log[1].mtime ELSE m

\* C6 as stated: after any sequence of record_path calls (the constructor's
\* included) last_modification_time is the maximum of the modification times of
\* all paths recorded, and get_save_info reports it as "modification".
C6_MaxModificationTime ==
    /\ pg_pc = "live" => pg_mtime = MaxMtime(pg_log)
    /\ (pg_pc = "saved" /\ pg_saved.kind = "SaveInfo")
           => pg_saved.modification = MaxMtime(pg_log)

\* C6, what the code does: the attribute keeps the constructor's sentinel 0.
C6_SentinelKept ==
    /\ pg_pc = "live" => pg_mtime = 0
    /\ (pg_pc = "saved" /\ pg_saved.kind = "SaveInfo") => pg_saved.modification = 0

----------------------------------------------------------------------------
(* The indexer: index.py (its own ManualPage class, and index)              *)

\* self._title = None
NoTitle == <<"None">>

\* is_desireable_section(section_name), index.py
is_desireable_section(section_name, good) == section_name \in good

\* A line on which index.ManualPage._parse calls is_desireable_section, with
\* the name it passes: line[0].split()[0], the line's first character
HeadingProbe(line) ==
    Len(line) > 0 /\ line[1] \notin SpaceChars /\ line[1] \in UpperChars

\* index.ManualPage._parse on a page record pg, given the formatter's stdout
IndexParse(pg, stdout, good) ==
    LET full_text == stdout
        line_idx == CHOOSE i \in 1..Len(full_text) :
                        /\ Strip(full_text[i]) # <<>>
                        /\ \A j \in 1..(i - 1) : Strip(full_text[j]) = <<>>
        title == SplitOn(SplitWs(Strip(full_text[line_idx]))[1], "(")[1]
    IN IF Len(full_text) = 0 THEN [page |-> pg, err |-> "none"]
       ELSE IF \A i \in 1..Len(full_text) : Strip(full_text[i]) = <<>>
       THEN [page |-> pg, err |-> "IndexError"]
       ELSE IF \E i \in 2..Len(full_text) :
                   /\ HeadingProbe(full_text[i])
                   /\ is_desireable_section(<<full_text[i][1]>>, good)
       THEN [page |-> [pg EXCEPT !.title = title, !.sections_set = TRUE,
                                 !.sections = <<>>],
             err |-> "NameError"]
       ELSE [page |-> [pg EXCEPT !.title = title, !.sections_set = TRUE,
                                 !.sections = <<>>, !.need_to_extract = FALSE],
             err |-> "none"]

\* index.ManualPage.record_path(path), for the file the path leads to
IndexRecordPath(pg, p, file, good) ==
    LET added == [pg EXCEPT !.paths = @ \cup {p}]
    IN IF pg.need_to_extract
       THEN IndexParse([added EXCEPT !.mtime = file.mtime], file.out, good)
       ELSE [page |-> added, err |-> "none"]

\* index.ManualPage(path)
IndexNewPage(p, file, good) ==
    IndexRecordPath([real |-> p, paths |-> {}, title |-> NoTitle,
                     sections_set |-> FALSE, sections |-> <<>>, mtime |-> 0,
                     need_to_extract |-> TRUE],
                    p, file, good)

\* index.ManualPage.get_save_info()
IndexSaveInfo(pg) ==
    [key |-> pg.title, paths |-> pg.paths, modification |-> pg.mtime]

\* json.dumps writes the key None as "null"
JsonKey(k) == IF k = NoTitle THEN <<"n", "u", "l", "l">> ELSE k

\* { title : data for title, data in map(get_save_info, pages.values()) }:
\* a later page with the same title replaces the value of the earlier one
RECURSIVE DictOf(_, _)
DictOf(items, acc) ==
    IF Len(items) = 0 THEN acc
    ELSE DictOf(Tail(items),
                IF \E i \in 1..Len(acc) : acc[i].key = items[1].key
                THEN [i \in 1..Len(acc) |->
                         IF acc[i].key = items[1].key THEN items[1] ELSE acc[i]]
                ELSE Append(acc, items[1]))

CacheOf(pages) ==
    LET d == DictOf([i \in 1..Len(pages) |-> IndexSaveInfo(pages[i])], <<>>)
    IN [i \in 1..Len(d) |-> [d[i] EXCEPT !.key = JsonKey(d[i].key)]]

\* ---- inputs of the indexer ----
MaxFiles == 3

RealA == <<"m", "/", "a", ".", "1">>
RealCopyA == <<"n", "/", "a", ".", "1">>
RealB == <<"m", "/", "b", ".", "1">>
LinkA == <<"l", "/", "a", ".", "1">>

RealFiles == {RealA, RealCopyA, RealB}

\* full path and os.path.realpath of it; LinkA is a symbolic link to RealA
DirEntries ==
    { [full |-> RealA, real |-> RealA], [full |-> RealCopyA, real |-> RealCopyA],
      [full |-> RealB, real |-> RealB], [full |-> LinkA, real |-> RealA] }

IndexOutputs ==
    { <<>>,
      << <<>>, <<" ">> >>,
      << TitleLine, <<>>, BoldHeadNA, <<" ", "x">> >>,
      << <<>>, <<"A", "(", "1", ")">>, HeadSY, <<" ", "y">> >> }

\* The sections file, without and with a one-letter section name
SectionFiles == { GoodSections, GoodSections \cup { <<"S">> } }

Walks ==
    { w \in UNION {[1..k -> DirEntries] : k \in 0..MaxFiles} :
        \A i, j \in 1..Len(w) : i # j => w[i] # w[j] }

IndexInit ==
    /\ MainIdle
    /\ ResolveIdle
    /\ DegrottyIdle
    /\ PageIdle
    /\ SearchIdle
    /\ ix_pc = "walking"
    /\ ix_files \in [RealFiles -> [out : IndexOutputs, mtime : Mtimes]]
    /\ ix_good \in SectionFiles
    /\ ix_todo \in Walks
    /\ ix_pages = <<>>
    /\ ix_cache = NotCalled

InPages(real) == \E i \in 1..Len(ix_pages) : ix_pages[i].real = real
PageIndexOf(real) == CHOOSE i \in 1..Len(ix_pages) : ix_pages[i].real = real

\* One iteration of the walk's loop over files
WalkFile ==
    /\ ix_pc = "walking"
    /\ Len(ix_todo) > 0
    /\ LET e == ix_todo[1]
           file == ix_files[e.real]
       IN IF ~InPages(e.real)
          THEN LET r == IndexNewPage(e.real, file, ix_good)
               IN IF r.err = "none"
                  THEN /\ ix_pages' = Append(ix_pages, r.page)
                       /\ ix_pc' = "walking"
                  ELSE /\ ix_pc' = "raised"
                       /\ UNCHANGED ix_pages
          ELSE LET k == PageIndexOf(e.real)
                   r == IndexRecordPath(ix_pages[k], e.full, file, ix_good)
               IN /\ ix_pages' = [ix_pages EXCEPT ![k] = r.page]
                  /\ ix_pc' = IF r.err = "none" THEN "walking" ELSE "raised"
    /\ ix_todo' = Tail(ix_todo)
    /\ UNCHANGED <<ix_files, ix_good, ix_cache, notIndex>>

\* After the walk: the dump of every page's save info into the cache file
DumpCache ==
    /\ ix_pc = "walking"
    /\ Len(ix_todo) = 0
    /\ ix_cache' = CacheOf(ix_pages)
    /\ ix_pc' = "dumped"
    /\ UNCHANGED <<ix_files, ix_good, ix_todo, ix_pages, notIndex>>

IndexNext == WalkFile \/ DumpCache

SpecIndex == IndexInit /\ [][IndexNext]_vars

\* A page without section text: _sections is None or an empty dict
EmptySections(pg) == ~pg.sections_set \/ Len(pg.sections) = 0

InCache(pg) ==
    \E i \in 1..Len(ix_cache) : ix_cache[i].key = JsonKey(pg.title)

\* C7 as stated: a page that ends the walk with an empty sections map is absent
\* from the persisted cache, and every page that has sections is written.
C7_EmptyPagesDropped ==
    ix_pc = "dumped" =>
        \A i \in 1..Len(ix_pages) :
            IF EmptySections(ix_pages[i]) THEN ~InCache(ix_pages[i])
            ELSE InCache(ix_pages[i])

\* C7, what the code does: every page of the walk, also one whose formatter
\* output was empty (title None, key "null"), has an entry in the cache.
C7_EveryPageDumped ==
    ix_pc = "dumped" =>
        \A i \in 1..Len(ix_pages) : InCache(ix_pages[i])

----------------------------------------------------------------------------
(* The search engine: discoverability.py                                    *)

\* np.argsort(scores): the indices in ascending order of score; the order of
\* equal scores is not specified, so every such order is possible
RECURSIVE ArgsortOrders(_, _)
ArgsortOrders(sc, remaining) ==
    IF remaining = {} THEN { <<>> }
    ELSE UNION { { <<i>> \o o : o \in ArgsortOrders(sc, remaining \ {i}) } :
                 i \in { k \in remaining : \A m \in remaining : sc[k] <= sc[m] } }

\* A slice that keeps one element more at its lower end
TopSliceInclusive(order, cnt) ==
    LET n == Len(order)
        stop == IF cnt > 0 THEN (IF n - cnt - 1 >= 0 THEN n - cnt - 1 ELSE -1)
                ELSE (IF -cnt > n - 1 THEN n - 1 ELSE -cnt)
    IN [k \in 1..(n - 1 - stop) |-> order[n - k + 1]]

\* order[-1:-cnt:-1]: from the last element downwards, stopping before the
\* element at position -cnt (0-based position n - cnt; position cnt if cnt <= 0)
TopSlice(order, cnt) ==
    LET n == Len(order)
        stop == IF cnt > 0 THEN (IF n - cnt >= 0 THEN n - cnt ELSE -1)
                ELSE (IF -cnt > n - 1 THEN n - 1 ELSE -cnt)
    IN [k \in 1..(n - 1 - stop) |-> order[n - k + 1]]

\* search_cosine, given what argsort returned: the titles of the top documents
search_cosine(order, cnt, corp) ==
    LET top_indices == TopSlice(order, cnt)
    IN [k \in 1..Len(top_indices) |-> corp[top_indices[k]]]

\* query in result
Contains(s, q) ==
    \E i \in 0..(Len(s) - Len(q)) : SubSeq(s, i + 1, i + Len(q)) = q

\* list.pop(i) and list.insert(i, x), 0-based i
PopAt(lst, i) == SubSeq(lst, 1, i) \o SubSeq(lst, i + 2, Len(lst))
InsertAt(lst, i, x) == SubSeq(lst, 1, i) \o <<x>> \o SubSeq(lst, i + 1, Len(lst))

\* A loop that moves every match to the insertion cursor
RECURSIVE RerankAllAtCursor(_, _, _, _)
RerankAllAtCursor(q, res, result_idx, match_count) ==
    IF result_idx >= Len(res) THEN res
    ELSE LET real_result == res[result_idx + 1]
         IN IF Contains(SplitWs(real_result)[1], q)
            THEN RerankAllAtCursor(q, InsertAt(PopAt(res, result_idx), match_count, real_result),
                                   result_idx + 1, match_count + 1)
            ELSE RerankAllAtCursor(q, res, result_idx + 1, match_count)

\* A loop that moves every match to the front
RECURSIVE RerankAllToFront(_, _, _, _)
RerankAllToFront(q, res, result_idx, match_count) ==
    IF result_idx >= Len(res) THEN res
    ELSE LET real_result == res[result_idx + 1]
         IN IF Contains(SplitWs(real_result)[1], q)
            THEN RerankAllToFront(q, InsertAt(PopAt(res, result_idx), 0, real_result),
                                  result_idx + 1, match_count + 1)
            ELSE RerankAllToFront(q, res, result_idx + 1, match_count)

\* The loop of post_process_search over range(len(results)), on the list as it
\* is mutated
RECURSIVE RerankLoop(_, _, _, _)
RerankLoop(q, res, result_idx, match_count) ==
    IF result_idx >= Len(res) THEN res
    ELSE LET real_result == res[result_idx + 1]
             result == SplitWs(real_result)[1]
         IN IF Contains(result, q)
            THEN RerankLoop(q,
                     IF q = result
                     THEN InsertAt(PopAt(res, result_idx), 0, real_result)
                     ELSE InsertAt(PopAt(res, result_idx), match_count, real_result),
                     result_idx + 1, match_count + 1)
            ELSE RerankLoop(q, res, result_idx + 1, match_count)

post_process_all_at_cursor(q, res) == RerankAllAtCursor(q, res, 0, 0)

post_process_all_to_front(q, res) == RerankAllToFront(q, res, 0, 0)

post_process_search(q, res) == RerankLoop(q, res, 0, 0)

\* ---- inputs of the search ----
MaxDocs == 3
MaxScore == 2
BigDocs == 21

\* count in main()
CliCount == 20

SearchTitles ==
    { CompoundTitle(<<"a">>, 1), CompoundTitle(<<"a">>, 3),
      CompoundTitle(<<"a", "b">>, 1), CompoundTitle(<<"a", "c">>, 1),
      CompoundTitle(<<"b">>, 1) }

Queries == { <<"a">>, <<"b">>, <<"a", "b">>, <<>> }

Counts == (0..(MaxDocs + 1)) \cup {CliCount}

\* Corpora: the titles are the keys of the cache's JSON object, hence distinct
SmallCorpora ==
    { c \in UNION {[1..k -> SearchTitles] : k \in 0..MaxDocs} :
        \A i, j \in 1..Len(c) : i # j => c[i] # c[j] }

BigCorpus == [i \in 1..BigDocs |-> CompoundTitle(<<"a">>, i)]

SearchInit ==
    /\ MainIdle
    /\ ResolveIdle
    /\ DegrottyIdle
    /\ PageIdle
    /\ IndexIdle
    /\ sr_pc = "start"
    /\ \/ /\ corpus \in SmallCorpora
          /\ scores \in [1..Len(corpus) -> 0..MaxScore]
       \/ /\ corpus = BigCorpus
          /\ scores \in { [i \in 1..BigDocs |-> i], [i \in 1..BigDocs |-> BigDocs - i] }
    /\ query \in Queries
    /\ count \in Counts
    /\ selected = <<>>
    /\ results = <<>>

\* search_cosine(tfidf, query, count, vectorizer, corpus)
CallSearchCosine ==
    /\ sr_pc = "start"
    /\ \E order \in ArgsortOrders(scores, 1..Len(corpus)) :
           selected' = search_cosine(order, count, corpus)
    /\ sr_pc' = "selected"
    /\ UNCHANGED <<corpus, scores, query, count, results, notSearch>>

\* post_process_search(query, results) on what search_cosine returned
CallPostProcess ==
    /\ sr_pc = "selected"
    /\ results' = post_process_search(query, selected)
    /\ sr_pc' = "done"
    /\ UNCHANGED <<corpus, scores, query, count, selected, notSearch>>

\* full_search(tfidf, query, count, vectorizer, corpus)
CallFullSearch ==
    /\ sr_pc = "start"
    /\ \E order \in ArgsortOrders(scores, 1..Len(corpus)) :
           /\ selected' = search_cosine(order, count, corpus)
           /\ results' = post_process_search(query, search_cosine(order, count, corpus))
    /\ sr_pc' = "done"
    /\ UNCHANGED <<corpus, scores, query, count, notSearch>>

SearchNext == CallSearchCosine \/ CallPostProcess \/ CallFullSearch

SpecSearch == SearchInit /\ [][SearchNext]_vars

----------------------------------------------------------------------------
(* Claims about the search engine                                           *)

FirstToken(title) == SplitWs(title)[1]

InSeq(x, lst) == \E i \in 1..Len(lst) : lst[i] = x

Occurrences(x, lst) == Cardinality({ i \in 1..Len(lst) : lst[i] = x })

\* full_search has returned (in one call, or as its two steps)
SearchDone == sr_pc = "done"

\* C8 as stated, for the count the command line passes: for a query equal to the
\* first token of the compound title of some page of the corpus, full_search
\* returns that title at position 0.
C8_ExactTitleFirst ==
    (SearchDone /\ count = CliCount) =>
        \A i \in 1..Len(corpus) :
            FirstToken(corpus[i]) = query =>
                (Len(results) > 0 /\ results[1] = corpus[i])

\* C8 amended: if that page is among the titles search_cosine selects, the first
\* result is a title whose first token equals the query, and it is that page's
\* title when no other selected title has the same first token.
C8_SelectedExactTitleFirst ==
    SearchDone =>
        \A i \in 1..Len(corpus) :
            (FirstToken(corpus[i]) = query /\ InSeq(corpus[i], selected)) =>
                /\ Len(results) > 0
                /\ FirstToken(results[1]) = query
                /\ (\A k \in 1..Len(selected) :
                        FirstToken(selected[k]) = query => selected[k] = corpus[i])
                   => results[1] = corpus[i]

\* C8 witness: the page with the queried title was selected behind other
\* results, one of them a substring match, and is returned first.
C8_Witness ==
    /\ SearchDone
    /\ Len(selected) >= 3
    /\ FirstToken(selected[3]) = query
    /\ FirstToken(selected[1]) # query
    /\ Contains(FirstToken(selected[1]), query)
    /\ ~Contains(FirstToken(selected[2]), query)
    /\ results[1] = selected[3]

\* 0: first token equals the query; 1: contains it as a proper substring; 2: no match
MatchClass(title) ==
    IF FirstToken(title) = query THEN 0
    ELSE IF Contains(FirstToken(title), query) THEN 1
    ELSE 2

\* C9: post_process_search returns a rearrangement of exactly the results it was
\* given, in which exact matches precede substring matches, which precede the
\* results that do not match.
C9_RerankClasses ==
    SearchDone =>
        /\ Len(results) = Len(selected)
        /\ \A i \in 1..Len(selected) :
               Occurrences(selected[i], results) = Occurrences(selected[i], selected)
        /\ \A i, j \in 1..Len(results) :
               i < j => MatchClass(results[i]) <= MatchClass(results[j])

\* C9 witness: results of all three classes were given in the opposite order
C9_Witness ==
    /\ SearchDone
    /\ Len(selected) = 3
    /\ MatchClass(selected[1]) = 2
    /\ MatchClass(selected[2]) = 1
    /\ MatchClass(selected[3]) = 0
    /\ results = <<selected[3], selected[2], selected[1]>>

DocOf(title) == CHOOSE i \in 1..Len(corpus) : corpus[i] = title

Min(a, b) == IF a < b THEN a ELSE b

\* C10: for a corpus of N documents and count >= 1, search_cosine returns exactly
\* min(count - 1, N) distinct titles in non-increasing order of score, no
\* document left out scores strictly higher than a returned one, and with the
\* command line's count at most 19 titles come out.
C10_TopCountMinusOne ==
    (sr_pc \in {"selected", "done"} /\ count >= 1) =>
        /\ Len(selected) = Min(count - 1, Len(corpus))
        /\ \A i, j \in 1..Len(selected) :
               i < j => /\ selected[i] # selected[j]
                        /\ scores[DocOf(selected[i])] >= scores[DocOf(selected[j])]
        /\ \A d \in 1..Len(corpus) :
               ~InSeq(corpus[d], selected) =>
                   \A i \in 1..Len(selected) : scores[d] <= scores[DocOf(selected[i])]
        /\ (count = CliCount /\ SearchDone) => Len(results) <= 19

\* C10 witness: the command line's count on a corpus of more than 19 documents
\* returns exactly 19 titles and leaves documents out.
C10_Witness ==
    /\ SearchDone
    /\ count = CliCount
    /\ Len(corpus) > 19
    /\ Len(selected) = 19
    /\ Len(results) = 19

-----------------------------------------------------------------------------
\* discoverability.main: retrieving the model.  Every search command is one
\* process running main(); the processes share the cache directory.  A file is
\* absent, open (created or truncated by open(path, "wb"), its content not yet
\* written) or complete; a complete artifact carries the build it comes from:
\* "new" is built from the cache file as it is now, "old" from earlier contents.

NumSearches == 2
Procs == 1..NumSearches

Artifacts == {"matrix", "corpus", "vectorizer"}

Absent == [st |-> "absent", build |-> "none"]
Truncated == [st |-> "open", build |-> "none"]
Complete(b) == [st |-> "complete", build |-> b]
Unset == [st |-> "unset", build |-> "none"]

\* os.path.exists
exists(file) == file.st # "absent"

\* The cache file: absent, holding pages with their "sections" (what
\* page_interface.get_save_info produces), or holding entries without
\* "sections" (what index.py's get_save_info produces).
CacheFiles == {"absent", "pages", "nosections"}

NoLocals ==
    [need_create |-> "undecided", tfidf |-> Unset, corpus |-> Unset,
     vectorizer |-> Unset, wrote |-> {}, printed |-> FALSE, error |-> "none"]

\* The artifacts a cache directory can hold before a search: any subset of the
\* three files of one earlier build.
ArtifactDirs ==
    {[f \in Artifacts |-> IF f \in kept THEN Complete(b) ELSE Absent] :
        kept \in SUBSET Artifacts, b \in {"old", "new"}}

MainInit ==
    /\ ResolveIdle /\ DegrottyIdle /\ PageIdle /\ IndexIdle /\ SearchIdle
    /\ mn_pc = [p \in Procs |-> "idle"]
    /\ mn_files \in ArtifactDirs
    /\ mn_cache \in CacheFiles
    /\ mn_local = [p \in Procs |-> NoLocals]
    /\ mn_start = [p \in Procs |-> [f \in Artifacts |-> Unset]]

Finished(p) == mn_pc[p] \in {"idle", "done", "failed"}

Goto(p, label) == mn_pc' = [mn_pc EXCEPT ![p] = label]

Raise(p, exception) ==
    /\ Goto(p, "failed")
    /\ mn_local' = [mn_local EXCEPT ![p].error = exception]

\* One search command starts while no other is running.
MainStartAlone(p) ==
    /\ mn_pc[p] = "idle"
    /\ \A q \in Procs : Finished(q)
    /\ Goto(p, "exists_matrix")
    /\ mn_start' = [mn_start EXCEPT ![p] = mn_files]
    /\ UNCHANGED <<mn_files, mn_cache, mn_local, notMain>>

\* One search command starts, whatever the others are doing.
MainStart(p) ==
    /\ mn_pc[p] = "idle"
    /\ Goto(p, "exists_matrix")
    /\ mn_start' = [mn_start EXCEPT ![p] = mn_files]
    /\ UNCHANGED <<mn_files, mn_cache, mn_local, notMain>>

\* `a or b or c` in place of `a and b and c`.
AfterExistsAny(f, found) ==
    IF found THEN "load_matrix"
    ELSE CASE f = "matrix" -> "exists_corpus"
           [] f = "corpus" -> "exists_vectorizer"
           [] OTHER        -> "exists_cache"

\* not (exists(matrix) and exists(corpus) and exists(vectorizer)), evaluated
\* left to right and stopping at the first file that does not exist.
AfterExists(f, found) ==
    IF ~found THEN "exists_cache"
    ELSE CASE f = "matrix" -> "exists_corpus"
           [] f = "corpus" -> "exists_vectorizer"
           [] OTHER        -> "load_matrix"

ExistsArtifact(p) ==
    \E f \in Artifacts :
        /\ mn_pc[p] = "exists_" \o f
        /\ LET next == AfterExists(f, exists(mn_files[f]))
           IN /\ Goto(p, next)
              /\ mn_local' = [mn_local EXCEPT ![p].need_create =
                     CASE next = "exists_cache" -> "yes"
                       [] next = "load_matrix"  -> "no"
                       [] OTHER                 -> @]
        /\ UNCHANGED <<mn_files, mn_cache, mn_start, notMain>>

ExistsCache(p) ==
    /\ mn_pc[p] = "exists_cache"
    /\ IF mn_cache # "absent"
       THEN Goto(p, "read_cache") /\ UNCHANGED mn_local
       ELSE Raise(p, "FileNotFoundError")
    /\ UNCHANGED <<mn_files, mn_cache, mn_start, notMain>>

\* json.load, the corpus and fit_transform; elements["sections"] raises
\* KeyError for an entry without sections.
ReadCache(p) ==
    /\ mn_pc[p] = "read_cache"
    /\ IF mn_cache = "pages"
       THEN /\ Goto(p, "open_matrix")
            /\ mn_local' = [mn_local EXCEPT ![p].tfidf = Complete("new"),
                                            ![p].corpus = Complete("new"),
                                            ![p].vectorizer = Complete("new")]
       ELSE Raise(p, "KeyError")
    /\ UNCHANGED <<mn_files, mn_cache, mn_start, notMain>>

\* The local variable saved to each artifact file.
LocalOf(p, f) ==
    CASE f = "matrix" -> mn_local[p].tfidf
      [] f = "corpus" -> mn_local[p].corpus
      [] OTHER        -> mn_local[p].vectorizer

AfterArtifact(f, last) ==
    CASE f = "matrix" -> "_corpus"
      [] f = "corpus" -> "_vectorizer"
      [] OTHER        -> last

\* open(path, "wb"): the file exists and is empty from here on.
OpenArtifact(p) ==
    \E f \in Artifacts :
        /\ mn_pc[p] = "open_" \o f
        /\ mn_files' = [mn_files EXCEPT ![f] = Truncated]
        /\ Goto(p, "save_" \o f)
        /\ UNCHANGED <<mn_cache, mn_local, mn_start, notMain>>

\* save_npz / pickle.dump and the end of the with block.
SaveArtifact(p) ==
    \E f \in Artifacts :
        /\ mn_pc[p] = "save_" \o f
        /\ mn_files' = [mn_files EXCEPT ![f] = LocalOf(p, f)]
        /\ mn_local' = [mn_local EXCEPT ![p].wrote = @ \cup {f}]
        /\ Goto(p, IF f = "vectorizer" THEN "search"
                   ELSE "open" \o AfterArtifact(f, ""))
        /\ UNCHANGED <<mn_cache, mn_start, notMain>>

\* open(path, "rb") and load_npz / pickle.load: only a complete file loads.
LoadArtifact(p) ==
    \E f \in Artifacts :
        /\ mn_pc[p] = "load_" \o f
        /\ LET seen == mn_files[f]
               loaded == CASE f = "matrix" -> [mn_local EXCEPT ![p].tfidf = seen]
                           [] f = "corpus" -> [mn_local EXCEPT ![p].corpus = seen]
                           [] OTHER        -> [mn_local EXCEPT ![p].vectorizer = seen]
           IN IF seen.st = "complete"
              THEN /\ mn_local' = loaded
                   /\ Goto(p, IF f = "vectorizer" THEN "search"
                              ELSE "load" \o AfterArtifact(f, ""))
              ELSE /\ mn_local' = [loaded EXCEPT ![p].error =
                          IF seen.st = "absent" THEN "FileNotFoundError"
                          ELSE "LoadError"]
                   /\ Goto(p, "failed")
        /\ UNCHANGED <<mn_files, mn_cache, mn_start, notMain>>

\* full_search and the printing of its results.
PrintResults(p) ==
    /\ mn_pc[p] = "search"
    /\ Goto(p, "done")
    /\ mn_local' = [mn_local EXCEPT ![p].printed = TRUE]
    /\ UNCHANGED <<mn_files, mn_cache, mn_start, notMain>>

MainStep(p) ==
    \/ ExistsArtifact(p)
    \/ ExistsCache(p)
    \/ ReadCache(p)
    \/ OpenArtifact(p)
    \/ SaveArtifact(p)
    \/ LoadArtifact(p)
    \/ PrintResults(p)

MainNext == \E p \in Procs : MainStartAlone(p) \/ MainStep(p)

MainConcurrentNext == \E p \in Procs : MainStart(p) \/ MainStep(p)

\* Search commands run one after another.
SpecMain == MainInit /\ [][MainNext]_vars

\* Search commands run at the same time.
SpecMainConcurrent == MainInit /\ [][MainConcurrentNext]_vars

-----------------------------------------------------------------------------
\* Claims about main's retrieval of the model.

Started(p) == mn_pc[p] # "idle"

\* Some artifact was missing when search p started.
MissingAtStart(p) == \E f \in Artifacts : ~exists(mn_start[p][f])

LoadLabels == {"load_matrix", "load_corpus", "load_vectorizer"}
CheckLabels ==
    {"exists_matrix", "exists_corpus", "exists_vectorizer", "exists_cache"}

SameBuild == \E b \in {"old", "new"} : \A f \in Artifacts : mn_files[f] = Complete(b)

\* C11: a search takes the load branch only if all three artifacts existed at
\* its start; a search that found one missing and succeeded has written all
\* three from the cache file, and after any successful search the three files
\* are complete and of one build, the one the search used; a search that found
\* one missing and no cache file goes nowhere but to FileNotFoundError, with
\* the artifact files as they were at its start and nothing printed.
C11_AllOrRebuild ==
    \A p \in Procs :
        /\ (mn_pc[p] \in LoadLabels \/ mn_local[p].need_create = "no")
               => ~MissingAtStart(p)
        /\ (Started(p) /\ MissingAtStart(p) /\ mn_pc[p] \notin CheckLabels)
               => mn_local[p].need_create = "yes"
        /\ (mn_pc[p] = "done" /\ MissingAtStart(p))
               => /\ mn_cache = "pages"
                  /\ mn_local[p].wrote = Artifacts
                  /\ \A f \in Artifacts : LocalOf(p, f) = Complete("new")
        /\ mn_pc[p] \in {"search", "done"}
               => /\ SameBuild
                  /\ \A f \in Artifacts : mn_files[f] = LocalOf(p, f)
        /\ mn_local[p].printed => mn_pc[p] = "done"
        /\ (Started(p) /\ MissingAtStart(p) /\ mn_cache = "absent")
               => /\ mn_pc[p] \in CheckLabels \cup {"failed"}
                  /\ mn_files = mn_start[p]
                  /\ mn_local[p].wrote = {}
                  /\ ~mn_local[p].printed
                  /\ mn_pc[p] = "failed" => mn_local[p].error = "FileNotFoundError"

\* C11 witness: a search that found the vectorizer missing beside a matrix and
\* a corpus of an old build has finished, and all three files are of the build
\* made from the cache file.
C11_Witness ==
    \E p \in Procs :
        /\ mn_pc[p] = "done"
        /\ mn_local[p].printed
        /\ ~exists(mn_start[p]["vectorizer"])
        /\ mn_start[p]["matrix"] = Complete("old")
        /\ mn_start[p]["corpus"] = Complete("old")
        /\ \A f \in Artifacts : mn_files[f] = Complete("new")

\* A search that found an artifact missing and no cache file has failed.
C11_FatalWitness ==
    \E p \in Procs :
        /\ mn_pc[p] = "failed"
        /\ mn_local[p].error = "FileNotFoundError"
        /\ mn_cache = "absent"
        /\ exists(mn_start[p]["matrix"])
        /\ ~exists(mn_start[p]["corpus"])

\* The artifacts search p has loaded so far.
LoadedBy(p) == {f \in Artifacts : LocalOf(p, f) # Unset}

\* C12: in every interleaving of concurrent searches, a search that decided
\* to load the model loads only complete artifacts, all of one build, and does
\* not fail on a file another search is writing.
C12_ConcurrentLoadsComplete ==
    \A p \in Procs :
        mn_local[p].need_create = "no" =>
            /\ \A f \in LoadedBy(p) : LocalOf(p, f).st = "complete"
            /\ \A f, g \in LoadedBy(p) : LocalOf(p, f).build = LocalOf(p, g).build
            /\ mn_pc[p] # "failed"

\* A search changes no artifact file as long as all three existed when every
\* running search started.
NoMutationWhenComplete ==
    (\A p \in Procs : Started(p) => ~MissingAtStart(p)) =>
        \A p \in Procs : Started(p) => mn_files = mn_start[p]

-----------------------------------------------------------------------------
\* Claims about the records of the walk.

\* The records of the walk whose path resolves to the PageKey k.
RecordsOf(k) ==
    {i \in 1..Len(ix_pages) : _get_name_and_section(ix_pages[i].real) = k}

WalkedKeys == {_get_name_and_section(ix_pages[i].real) : i \in 1..Len(ix_pages)}

\* C13: after the walk there is exactly one ManualPage record per PageKey
\* (title, section): files that resolve to the same key, also at different
\* real paths, are merged into one record whose paths holds all of them.
C13_OneRecordPerPageKey ==
    ix_pc = "dumped" =>
        \A k \in WalkedKeys :
            /\ Cardinality(RecordsOf(k)) = 1
            /\ \E i \in RecordsOf(k) :
                   \A j \in RecordsOf(k) : ix_pages[j].paths \subseteq ix_pages[i].paths

\* The walk keeps one record per real path: a link to a file seen before is
\* recorded into the record of that file.
OneRecordPerRealPath ==
    \A i, j \in 1..Len(ix_pages) :
        ix_pages[i].real = ix_pages[j].real => i = j

-----------------------------------------------------------------------------
\* Claims about the order post_process_search keeps.

\* The position of a title in a list of distinct titles.
PosIn(title, lst) == CHOOSE i \in 1..Len(lst) : lst[i] = title

\* Pairs of positions i < j of the input whose titles are of the class cls.
SameClassPairs(cls) ==
    {ij \in (1..Len(selected)) \X (1..Len(selected)) :
        /\ ij[1] < ij[2]
        /\ MatchClass(selected[ij[1]]) = cls
        /\ MatchClass(selected[ij[2]]) = cls}

KeepsOrder(cls) ==
    \A ij \in SameClassPairs(cls) :
        PosIn(selected[ij[1]], results) < PosIn(selected[ij[2]], results)

ReversesOrder(cls) ==
    \A ij \in SameClassPairs(cls) :
        PosIn(selected[ij[1]], results) > PosIn(selected[ij[2]], results)

\* C14 as stated: in the output of post_process_search the exact matches, the
\* substring matches and the results that do not match each keep the relative
\* order they had in the input.
C14_StableWithinClass ==
    SearchDone => KeepsOrder(0) /\ KeepsOrder(1) /\ KeepsOrder(2)

\* C14 amended: the substring matches and the results that do not match each
\* keep the relative order they had in the input; the results whose first
\* token equals the query come out in the reverse of their input order.
C14_StableExceptExact ==
    SearchDone => ReversesOrder(0) /\ KeepsOrder(1) /\ KeepsOrder(2)

\* C14 witness: two exact matches were given behind a substring match and are
\* returned before it, the later one first.
C14_Witness ==
    /\ SearchDone
    /\ Len(selected) = 3
    /\ MatchClass(selected[1]) = 1
    /\ MatchClass(selected[2]) = 0
    /\ MatchClass(selected[3]) = 0
    /\ results = <<selected[3], selected[2], selected[1]>>

\* Two substring matches of a query that is not empty were given behind a
\* result that does not match and are returned before it in their input order.
SubstringMatchesKeepOrder ==
    /\ SearchDone
    /\ Len(selected) = 3
    /\ query # <<>>
    /\ MatchClass(selected[1]) = 2
    /\ MatchClass(selected[2]) = 1
    /\ MatchClass(selected[3]) = 1
    /\ results = <<selected[2], selected[3], selected[1]>>

=============================================================================
